---- MODULE Spec2Model ----
(***************************************************************************)
(* Model of ckanext/oaipmh/importformats.py: the metadata dictionary       *)
(* projection (copy_element and its callbacks), the NRD reader             *)
(* (nrd_metadata_reader) and the ExceptReturn decorator.                   *)
(*                                                                         *)
(* A metadata dictionary is a function from keys to values.  A key is the  *)
(* sequence of the string fragments the code concatenates to build it:     *)
(* 'dataset/nrd:creator.0/foaf:name' is                                    *)
(* <<"dataset", "/nrd:creator", ".0", "/foaf:name">>, and string           *)
(* concatenation is sequence concatenation.  Every fragment after the      *)
(* first starts with '/' or '.', so two keys are equal as strings exactly  *)
(* when they are equal as sequences.                                       *)
(***************************************************************************)
EXTENDS Integers, Sequences, FiniteSets, TLC

VARIABLES md0, prev, md, rules, pass, calls, err, depth,
          xml, result, rd,
          w_exception, w_returns, w_f, w_out, w_n

vars == <<md0, prev, md, rules, pass, calls, err, depth,
          xml, result, rd,
          w_exception, w_returns, w_f, w_out, w_n>>

copyVars == <<md0, prev, md, rules, pass, calls, err, depth>>
readerVars == <<xml, result, rd>>
wrapVars == <<w_exception, w_returns, w_f, w_out, w_n>>

(***************************************************************************)
(* Bounds of the model.                                                    *)
(***************************************************************************)
\* largest '.count' value of an input dictionary
MaxCount == 2
\* the interpreter's limit on nested calls (sys.getrecursionlimit(), scaled)
RecursionLimit == 12
\* passes of a rule list over one dictionary
MaxPass == 2
\* calls made through one decorated function
MaxCalls == 2

(***************************************************************************)
(* Dictionaries.                                                           *)
(***************************************************************************)
None == "None"
Empty == <<>>

\* md[k] = v
Put(d, k, v) == [x \in (DOMAIN d) \cup {k} |-> IF x = k THEN v ELSE d[x]]

\* md.get(k, default)
Get(d, k, default) == IF k \in DOMAIN d THEN d[k] ELSE default

\* '.%d' % i
Idx(i) == "." \o ToString(i)

\* p is a prefix of q
Prefix(p, q) == Len(p) <= Len(q) /\ SubSeq(q, 1, Len(p)) = p

(***************************************************************************)
(* copy_element(source, dest, md, callback).  A call works on              *)
(* st = [md, calls, err, depth]: the dictionary, the log of the callback   *)
(* invocations <<callback, source, dest>>, the exception in flight ("ok"   *)
(* when none) and the deepest nesting of calls reached.  d is the nesting  *)
(* of the call itself; beyond RecursionLimit the interpreter raises        *)
(* RecursionError (a RuntimeError before Python 3.5), which nothing in     *)
(* the module catches.                                                     *)
(***************************************************************************)
Enter(st, d) ==
    IF d > RecursionLimit
    THEN [st EXCEPT !.err = "RecursionError", !.depth = d]
    ELSE [st EXCEPT !.depth = IF d > @ THEN d ELSE @]

\* line 58: md[dest] = md[source]
CopyValue(d, source, dest) == Put(d, dest, d[source])

\* the language keys tried in the opposite order
LanguageSuffixes_Reversed == <<"/@xml:lang", "/@lang", "/language">>

\* lines 59-61: the language keys projected to dest + '/language', in order
LanguageSuffixes == <<"/language", "/@lang", "/@xml:lang">>

\* the resource kept as an attribute of dest instead of overwriting it
ResourceDest_Attribute(dest) == dest \o <<"/@rdf:resource">>

\* line 62: where source + '/@rdf:resource' is projected to
ResourceDest(dest) == dest

\* line 70: not count
NotCount(count) == count = 0

\* the count added to the one dest already has
SetCount_Accumulate(d, dest, count) ==
    Put(d, dest \o <<".count">>, Get(d, dest \o <<".count">>, 0) + count)

\* line 74: md[dest + '.count'] = count
SetCount(d, dest, count) == Put(d, dest \o <<".count">>, count)

\* the last instance left out
Range_SkipLast(count) == 0 .. (count - 2)

\* line 75: range(count)
Range(count) == 0 .. (count - 1)

RECURSIVE copy_element(_, _, _, _, _)
RECURSIVE copy_languages(_, _, _, _, _)
RECURSIVE copy_instances(_, _, _, _, _, _, _)
RECURSIVE Invoke(_, _, _, _, _)

\* lines 59-61, from the n-th language key on
copy_languages(source, dest, st, d, n) ==
    IF n > Len(LanguageSuffixes) THEN st
    ELSE LET r == copy_element(source \o <<LanguageSuffixes[n]>>,
                               dest \o <<"/language">>, st, None, d + 1)
         IN IF r.err # "ok" THEN r
            ELSE copy_languages(source, dest, r, d, n + 1)

\* the instances projected without the callback
copy_instances_NoCallback(source, dest, st, callback, d, i, count) ==
    IF i \notin Range(count) THEN st
    ELSE LET r == copy_element(source \o <<Idx(i)>>, dest \o <<Idx(i)>>,
                               st, None, d + 1)
         IN IF r.err # "ok" THEN r
            ELSE copy_instances(source, dest, r, callback, d, i + 1, count)

\* lines 75-78, from index i on
copy_instances(source, dest, st, callback, d, i, count) ==
    IF i \notin Range(count) THEN st
    ELSE LET r == copy_element(source \o <<Idx(i)>>, dest \o <<Idx(i)>>,
                               st, callback, d + 1)
         IN IF r.err # "ok" THEN r
            ELSE copy_instances(source, dest, r, callback, d, i + 1, count)

\* lines 57-78
copy_element(source, dest, st0, callback, d) ==
    LET st == Enter(st0, d) IN
    IF st.err # "ok" THEN st
    ELSE IF source \in DOMAIN st.md
    THEN LET s2 == copy_languages(source, dest,
                       [st EXCEPT !.md = CopyValue(st.md, source, dest)], d, 1)
         IN IF s2.err # "ok" THEN s2
            ELSE LET s3 == copy_element(source \o <<"/@rdf:resource">>,
                                        ResourceDest(dest), s2, None, d + 1)
                 IN IF s3.err # "ok" \/ callback = None THEN s3
                    ELSE Invoke(callback, source, dest, s3, d + 1)
    ELSE LET count == Get(st.md, source \o <<".count">>, 0) IN
         IF NotCount(count) THEN st
         ELSE copy_instances(source, dest,
                  [st EXCEPT !.md = SetCount(st.md, dest, count)],
                  callback, d, 0, count)

\* a callback's body: copy_element(source + c[1], dest + c[2], md, c[3]) for
\* each c of copies, in order
RECURSIVE copy_each(_, _, _, _, _, _)
copy_each(copies, source, dest, st, d, n) ==
    IF n > Len(copies) THEN st
    ELSE LET r == copy_element(source \o copies[n][1], dest \o copies[n][2],
                               st, copies[n][3], d + 1)
         IN IF r.err # "ok" THEN r
            ELSE copy_each(copies, source, dest, r, d, n + 1)

\* the name projected to the email
person_attrs_NameToEmail ==
    << <<(<<"/foaf:name">>), (<<"/email">>), None>>,
       <<(<<"/foaf:mbox">>), (<<"/email">>), None>>,
       <<(<<"/foaf:phone">>), (<<"/phone">>), None>> >>

\* lines 81-86
person_attrs ==
    << <<(<<"/foaf:name">>), (<<"/name">>), None>>,
       <<(<<"/foaf:mbox">>), (<<"/email">>), None>>,
       <<(<<"/foaf:phone">>), (<<"/phone">>), None>> >>

\* lines 103-109
document_attrs ==
    << <<(<<"/dct:title">>), (<<"/title">>), None>>,
       <<(<<"/dct:identifier">>), (<<>>), None>>,
       <<(<<"/dct:creator">>), (<<"/creator", ".0", "/name">>), None>>,
       <<(<<"/nrd:creator">>), (<<"/creator">>), "person_attrs">>,
       <<(<<"/dct:description">>), (<<"/description">>), None>> >>

\* lines 111-114
funding_attrs ==
    << <<(<<"/rev:arpfo:funds", ".0", "/arpfo:grantNumber">>), (<<"/fundingNumber">>), None>>,
       <<(<<"/rev:arpfo:funds", ".0", "/rev:arpfo:provides">>), (<<"/funder">>),
         "person_attrs">> >>

\* lines 116-121
file_attrs ==
    << <<(<<"/dcat:mediaType">>), (<<"/mimetype">>), None>>,
       <<(<<"/fp:checksum", ".0", "/fp:checksumValue", ".0">>), (<<"/checksum", ".0">>), None>>,
       <<(<<"/fp:checksum", ".0", "/fp:generator", ".0">>),
         (<<"/checksum", ".0", "/algorithm">>), None>>,
       <<(<<"/dcat:byteSize">>), (<<"/size">>), None>> >>

\* the body of the callback of that name
Body(callback) ==
    CASE callback = "person_attrs" -> person_attrs
      [] callback = "document_attrs" -> document_attrs
      [] callback = "funding_attrs" -> funding_attrs
      [] callback = "file_attrs" -> file_attrs

\* line 66: callback(source, dest, md)
Invoke(callback, source, dest, st0, d) ==
    LET st == Enter(st0, d) IN
    IF st.err # "ok" THEN st
    ELSE copy_each(Body(callback), source, dest,
                   [st EXCEPT !.calls = Append(@, <<callback, source, dest>>)], d, 1)

\* lines 148-149: for source, dest, callback in mapping: copy_element(...)
RECURSIVE ApplyMapping(_, _, _)
ApplyMapping(mapping, st, n) ==
    IF n > Len(mapping) THEN st
    ELSE LET r == copy_element(mapping[n][1], mapping[n][2], st, mapping[n][3], 1)
         IN IF r.err # "ok" THEN r
            ELSE ApplyMapping(mapping, r, n + 1)

Start(d) == [md |-> d, calls |-> <<>>, err |-> "ok", depth |-> 0]

(***************************************************************************)
(* Specification Spec: copy_element, alone and through a rule list, on     *)
(* the dictionaries a reader hands over.  Attribute and language keys are  *)
(* leaves; an element is a scalar (a value at its key), a repeated element *)
(* ('.count' and indexed instances, each with or without a value of its    *)
(* own and a foaf:name child), or both.                                    *)
(***************************************************************************)
X == <<"x">>
Y == <<"y">>
Z == <<"z">>

Opt(k, v) == {Empty, k :> v}

\* the instances .0 .. .(n-1) of x
RECURSIVE Children(_)
Children(n) ==
    IF n = 0 THEN {Empty}
    ELSE {a @@ b @@ c : a \in Children(n - 1),
                        b \in Opt(X \o <<Idx(n - 1)>>, "v" \o ToString(n - 1)),
                        c \in Opt(X \o <<Idx(n - 1), "/foaf:name">>, "name" \o ToString(n - 1))}

RepeatedRecords ==
    {Empty, (X \o <<".count">>) :> 0}
    \cup UNION {{((X \o <<".count">>) :> n) @@ c : c \in Children(n)} : n \in 1 .. MaxCount}

ScalarRecords ==
    {(X :> "text") @@ a @@ b @@ c @@ r @@ k :
        a \in Opt(X \o <<"/language">>, "en"),
        b \in Opt(X \o <<"/@lang">>, "fi"),
        c \in Opt(X \o <<"/@xml:lang">>, "sv"),
        r \in Opt(X \o <<"/@rdf:resource">>, "http://ex"),
        k \in {Empty, ((X \o <<".count">>) :> 1) @@ ((X \o <<".0">>) :> "v0")}}

DestRecords ==
    {Empty, Y :> "old", (Y :> "old") @@ ((Y \o <<"/language">>) :> "xx")}

InputRecords == {a @@ b : a \in ScalarRecords \cup RepeatedRecords, b \in DestRecords}

\* the (source, dest, callback) triples a rule list is made of
RulePool ==
    { <<X, Y, None>>, <<X, Y, "person_attrs">>, <<Y, Z, None>>,
      <<X, X, None>>, <<X, X \o <<"/language">>, None>>,
      <<X, X \o <<".0">>, "person_attrs">> }

RuleLists == {<<r>> : r \in RulePool} \cup {<<r, q>> : r \in RulePool, q \in RulePool}

InitIdleReader == xml = Empty /\ result = Empty /\ rd = "idle"
InitIdleWrap ==
    /\ w_exception = None /\ w_returns = None /\ w_f = None
    /\ w_out = None /\ w_n = 0
InitIdleCopy ==
    /\ md0 = Empty /\ prev = Empty /\ md = Empty /\ rules = <<>>
    /\ pass = 0 /\ calls = <<>> /\ err = "ok" /\ depth = 0

Init ==
    /\ md0 \in InputRecords
    /\ md = md0 /\ prev = md0
    /\ rules = <<>> /\ pass = 0 /\ calls = <<>> /\ err = "ok" /\ depth = 0
    /\ InitIdleReader /\ InitIdleWrap

\* one pass of a rule list over the dictionary (lines 148-149); the first
\* pass picks the list, a later pass applies the same list again.  An
\* exception ends the run, the dictionary left as it was when it was raised.
RunMapping ==
    /\ pass < MaxPass /\ err = "ok"
    /\ \E rs \in (IF pass = 0 THEN RuleLists ELSE {rules}) :
         LET st == ApplyMapping(rs, Start(md), 1) IN
         /\ rules' = rs
         /\ prev' = md
         /\ md' = st.md
         /\ calls' = st.calls
         /\ err' = st.err
         /\ depth' = st.depth
    /\ pass' = pass + 1
    /\ UNCHANGED <<md0, readerVars, wrapVars>>

Next == RunMapping

Spec == Init /\ [][Next]_vars

\* the single copy_element call of a one-rule list has returned or raised
Called == pass = 1 /\ Len(rules) = 1
source == rules[1][1]
dest == rules[1][2]
callback == rules[1][3]
Returned == Called /\ err = "ok"

\* no rule reads under a path another rule (or itself) writes under
Disjoint(rs) ==
    \A i \in 1 .. Len(rs), j \in 1 .. Len(rs) :
        ~Prefix(rs[i][1], rs[j][2]) /\ ~Prefix(rs[j][2], rs[i][1])

\* the number of instances the source declared when the call was made
N == Get(prev, source \o <<".count">>, 0)
Repeated == Returned /\ source \notin DOMAIN prev /\ N >= 1

RECURSIVE MaxLen(_)
MaxLen(keys) ==
    IF keys = {} THEN 0
    ELSE LET k == CHOOSE x \in keys : TRUE
             m == MaxLen(keys \ {k})
         IN IF Len(k) > m THEN Len(k) ELSE m

(***************************************************************************)
(* C1.  Count preservation.                                                *)
(***************************************************************************)
\* C1 as stated: after copy_element has projected a repeated element with N
\* instances, dest.count = N and every key dest.0 .. dest.(N-1) exists.
C1_AllIndicesExist ==
    Repeated =>
        /\ Get(md, dest \o <<".count">>, None) = N
        /\ \A i \in 0 .. (N - 1) : (dest \o <<Idx(i)>>) \in DOMAIN md

\* C1 amended: after copy_element has projected a repeated element with N
\* instances, dest.count = N and dest.i exists for every i < N whose source.i
\* is a key of the dictionary.
C1_CountPreserved ==
    Repeated =>
        /\ Get(md, dest \o <<".count">>, None) = N
        /\ \A i \in 0 .. (N - 1) :
              (source \o <<Idx(i)>>) \in DOMAIN prev
                  => (dest \o <<Idx(i)>>) \in DOMAIN md

C1_Witness ==
    /\ Repeated /\ dest = Y /\ N = 2
    /\ (X \o <<".0">>) \in DOMAIN prev /\ (X \o <<".1">>) \notin DOMAIN prev
    /\ md[Y \o <<".count">>] = 2
    /\ (Y \o <<".0">>) \in DOMAIN md /\ (Y \o <<".1">>) \notin DOMAIN md

(***************************************************************************)
(* C2.  Callback invocation count.                                         *)
(***************************************************************************)
\* C2 as stated: projecting a repeated element with N instances with a
\* callback invokes the callback exactly N times, once per index i < N with
\* (source.i, dest.i), also for instances present only through sub-keys.
C2_CallbackPerIndex ==
    (Repeated /\ callback # None) =>
        calls = [i \in 1 .. N |->
                    <<callback, source \o <<Idx(i - 1)>>, dest \o <<Idx(i - 1)>> >>]

\* what copy_element does: the callback is invoked once with
\* (source.i, dest.i), in the order of i, for each i < N whose source.i is a
\* key of the dictionary, and not for an instance present only through
\* sub-keys.
C2_CallbackPerPresentIndex ==
    (Repeated /\ callback # None) =>
        calls = SelectSeq([i \in 1 .. N |->
                             <<callback, source \o <<Idx(i - 1)>>, dest \o <<Idx(i - 1)>> >>],
                          LAMBDA c : c[2] \in DOMAIN prev)

C2_PresentIndexReached ==
    /\ Repeated /\ callback = "person_attrs" /\ dest = Y /\ N = 2
    /\ (X \o <<".0">>) \notin DOMAIN prev
    /\ (X \o <<".0", "/foaf:name">>) \in DOMAIN prev
    /\ (X \o <<".1">>) \in DOMAIN prev
    /\ calls = << <<"person_attrs", X \o <<".1">>, Y \o <<".1">> >> >>
    /\ (Y \o <<".0", "/name">>) \notin DOMAIN md

(***************************************************************************)
(* C5.  Idempotence of a rule list.                                        *)
(***************************************************************************)
\* C5 as stated: for any rule list, prefixes and siblings included, a second
\* pass over the projected dictionary yields the same dictionary.
C5_IdempotentAnyRules == (pass = 2 /\ err = "ok") => md = prev

\* C5 amended: when no rule's source is a prefix of a rule's dest and no
\* rule's dest is a prefix of a rule's source, a second pass of the rule list
\* returns and yields the same dictionary as the first.
C5_IdempotentDisjoint == (pass = 2 /\ Disjoint(rules)) => (err = "ok" /\ md = prev)

C5_Witness ==
    /\ pass = 2 /\ Disjoint(rules) /\ Len(rules) = 2
    /\ md = prev /\ md # md0 /\ Len(calls) = 2

(***************************************************************************)
(* C6.  Language precedence.                                               *)
(***************************************************************************)
\* C6: after copy_element has projected a scalar source, dest/language is
\* the value of source/@xml:lang if present, else of source/@lang if
\* present, else of source/language if present.
C6_LanguagePrecedence ==
    (Returned /\ source \in DOMAIN prev) =>
        LET l1 == source \o <<"/language">>
            l2 == source \o <<"/@lang">>
            l3 == source \o <<"/@xml:lang">>
            dl == dest \o <<"/language">>
        IN /\ l3 \in DOMAIN prev => Get(md, dl, None) = prev[l3]
           /\ (l3 \notin DOMAIN prev /\ l2 \in DOMAIN prev) => Get(md, dl, None) = prev[l2]
           /\ (l3 \notin DOMAIN prev /\ l2 \notin DOMAIN prev /\ l1 \in DOMAIN prev)
                  => Get(md, dl, None) = prev[l1]

C6_Witness ==
    /\ Returned /\ source = X /\ dest = Y
    /\ Get(prev, X \o <<"/language">>, None) = "en"
    /\ Get(prev, X \o <<"/@lang">>, None) = "fi"
    /\ Get(prev, X \o <<"/@xml:lang">>, None) = "sv"
    /\ Get(prev, Y \o <<"/language">>, None) = "xx"
    /\ md[Y \o <<"/language">>] = "sv"

(***************************************************************************)
(* C7.  Resource override.                                                 *)
(***************************************************************************)
\* C7: after copy_element has projected a scalar source, dest holds the
\* value of source/@rdf:resource when that key is present and the value of
\* source when it is absent.
C7_ResourceOverride ==
    (Returned /\ source \in DOMAIN prev) =>
        LET res == source \o <<"/@rdf:resource">> IN
        Get(md, dest, None) = (IF res \in DOMAIN prev THEN prev[res] ELSE prev[source])

C7_Witness ==
    /\ Returned /\ source = X /\ dest = Y
    /\ Get(prev, X, None) = "text"
    /\ Get(prev, X \o <<"/@rdf:resource">>, None) = "http://ex"
    /\ Get(prev, Y, None) = "old"
    /\ md[Y] = "http://ex"

(***************************************************************************)
(* C9, C10.  Guards and termination.                                       *)
(***************************************************************************)
\* C9 as stated: copy_element enforces a maximum depth and count of its own,
\* so a call either returns or fails with MalformedRecordError; it never
\* runs into the interpreter's limit.
C9_FailsWithMalformedRecordError ==
    pass >= 1 => err \in {"ok", "MalformedRecordError"}

\* C10 as stated: every copy_element call returns, nested no deeper than the
\* nesting of the keys of the input dictionary allows (one call, and one
\* callback, per fragment of its longest key), also when dest is
\* source + '/language' or another path the call reads.
C10_BoundedRecursion ==
    Called => (err = "ok" /\ depth <= 2 * MaxLen(DOMAIN prev) + 1)

\* the bound of C10 is the right one: it holds of every rule list whose
\* rules read nothing they write
DepthBoundedWhenDisjoint ==
    (pass >= 1 /\ Disjoint(rules)) => (err = "ok" /\ depth <= 2 * MaxLen(DOMAIN prev) + 1)

(***************************************************************************)
(* nrd_metadata_reader(xml).  rdf_reader(xml).getMap() is the dictionary   *)
(* the specification SpecReader starts from, kept in the variable xml.     *)
(***************************************************************************)
\* lines 123-147
mapping ==
    << <<(<<"dataset">>), (<<"versionidentifier">>), None>>,
       <<(<<"dataset", "/nrd:continuityIdentifier">>), (<<"continuityidentifier">>), None>>,
       <<(<<"dataset", "/rev:foaf:primaryTopic", ".0", "/nrd:metadataIdentifier">>),
         (<<"metadata", "/identifier">>), None>>,
       <<(<<"dataset", "/rev:foaf:primaryTopic", ".0", "/nrd:metadataModified">>),
         (<<"metadata", "/modified">>), None>>,
       <<(<<"dataset", "/dct:title">>), (<<"title">>), None>>,
       <<(<<"dataset", "/nrd:modified">>), (<<"modified">>), None>>,
       <<(<<"dataset", "/nrd:rights">>), (<<"rights">>), None>>,
       <<(<<"dataset", "/nrd:language">>), (<<"language">>), None>>,
       <<(<<"dataset", "/nrd:owner">>), (<<"owner">>), "person_attrs">>,
       <<(<<"dataset", "/nrd:creator">>), (<<"creator">>), "person_attrs">>,
       <<(<<"dataset", "/nrd:distributor">>), (<<"distributor">>), "person_attrs">>,
       <<(<<"dataset", "/nrd:contributor">>), (<<"contributor">>), "person_attrs">>,
       <<(<<"dataset", "/nrd:subject">>), (<<"subject">>), None>>,
       <<(<<"dataset", "/nrd:producerProject">>), (<<"project">>), "funding_attrs">>,
       <<(<<"dataset", "/dct:isPartOf">>), (<<"collection">>), "document_attrs">>,
       <<(<<"dataset", "/dct:requires">>), (<<"requires">>), None>>,
       <<(<<"dataset", "/nrd:discipline">>), (<<"discipline">>), None>>,
       <<(<<"dataset", "/nrd:temporal">>), (<<"temporalcoverage">>), None>>,
       <<(<<"dataset", "/nrd:spatial">>), (<<"spatialcoverage">>), None>>,
       <<(<<"dataset", "/nrd:manifestation">>), (<<"resource">>), "file_attrs">>,
       <<(<<"dataset", "/nrd:observationMatrix">>), (<<"variables">>), None>>,
       <<(<<"dataset", "/nrd:usedByPublication">>), (<<"publication">>), "document_attrs">>,
       <<(<<"dataset", "/dct:description">>), (<<"description">>), None>> >>

\* the rights markups of the model
NotXml == "all rights reserved"
NoCategory == "<rights/>"
LicensedNoChild == "<rights RIGHTSCATEGORY='LICENSED'/>"
ContractualNoChild == "<rights RIGHTSCATEGORY='Contractual'/>"
Licensed == "<rights RIGHTSCATEGORY='LICENSED'><license>CC-BY</license></rights>"
Contractual == "<rights RIGHTSCATEGORY='CONTRACTUAL'><url>http://ex/terms</url></rights>"
LicensedEmptyChild == "<rights RIGHTSCATEGORY='licensed'><license/></rights>"
Copyrighted == "<rights RIGHTSCATEGORY='COPYRIGHTED'/>"
RightsMarkups ==
    {NotXml, NoCategory, LicensedNoChild, ContractualNoChild, Licensed, Contractual,
     LicensedEmptyChild, Copyrighted}

Element(attrib, children) == [err |-> "ok", attrib |-> attrib, children |-> children]
XMLSyntaxError == [err |-> "XMLSyntaxError", attrib |-> Empty, children |-> <<>>]

\* line 151: lxml.etree.XML(text) on the markups of the model and on a URL:
\* the root element, its attributes and the text of its children, or the
\* exception raised
XML(text) ==
    CASE text = NoCategory -> Element(Empty, <<>>)
      [] text = LicensedNoChild -> Element("RIGHTSCATEGORY" :> "LICENSED", <<>>)
      [] text = ContractualNoChild -> Element("RIGHTSCATEGORY" :> "Contractual", <<>>)
      [] text = Licensed -> Element("RIGHTSCATEGORY" :> "LICENSED", <<"CC-BY">>)
      [] text = Contractual -> Element("RIGHTSCATEGORY" :> "CONTRACTUAL", <<"http://ex/terms">>)
      [] text = LicensedEmptyChild -> Element("RIGHTSCATEGORY" :> "licensed", <<None>>)
      [] text = Copyrighted -> Element("RIGHTSCATEGORY" :> "COPYRIGHTED", <<>>)
      [] OTHER -> XMLSyntaxError

\* line 152: str.lower() on the categories of the model
Lower(text) ==
    CASE text \in {"LICENSED", "licensed"} -> "licensed"
      [] text \in {"CONTRACTUAL", "Contractual"} -> "contractual"
      [] text = "COPYRIGHTED" -> "copyrighted"

Raise(res, e) == [md |-> res, err |-> e]
Return(res) == [md |-> res, err |-> "ok"]

\* lines 155 and 157: result[key] = rights[0].text
SetFirstChildText(res, key, rights) ==
    IF Len(rights.children) = 0 THEN Raise(res, "IndexError")
    ELSE Return(Put(res, <<key>>, rights.children[1]))

\* lines 151-157, the body of the try
ParseRights(res) ==
    IF <<"rights">> \notin DOMAIN res THEN Raise(res, "KeyError")
    ELSE LET rights == XML(res[<<"rights">>]) IN
    IF rights.err # "ok" THEN Raise(res, rights.err)
    ELSE IF "RIGHTSCATEGORY" \notin DOMAIN rights.attrib THEN Raise(res, "KeyError")
    ELSE LET rightsclass == Lower(rights.attrib["RIGHTSCATEGORY"])
             r1 == Put(res, <<"rightsclass">>, rightsclass)
         IN IF rightsclass = "licensed" THEN SetFirstChildText(r1, "license", rights)
            ELSE IF rightsclass = "contractual"
                 THEN SetFirstChildText(r1, "accessURL", rights)
                 ELSE Return(r1)

\* except KeyError: in place of the bare except
Caught_KeyErrorOnly(e) == e = "KeyError"

\* line 158: except: (every exception is caught)
Caught(e) == TRUE

\* lines 150-159
RightsPass(res) ==
    LET r == ParseRights(res) IN
    IF r.err # "ok" /\ Caught(r.err) THEN Return(r.md) ELSE r

\* lines 148-149
MappingPass(d) == ApplyMapping(mapping, Start(d), 1)

NameOf(i) == CASE i = 0 -> "Alice" [] i = 1 -> "Bob" [] OTHER -> "name" \o ToString(i)

DS(key) == <<"dataset">> \o key

RECURSIVE Creators(_)
Creators(n) ==
    IF n = 0 THEN {Empty}
    ELSE {a @@ b @@ c : a \in Creators(n - 1),
                        b \in Opt(DS(<<"/nrd:creator", Idx(n - 1)>>), "creator" \o ToString(n - 1)),
                        c \in Opt(DS(<<"/nrd:creator", Idx(n - 1), "/foaf:name">>), NameOf(n - 1))}

CreatorRecords ==
    {Empty} \cup UNION {{(DS(<<"/nrd:creator", ".count">>) :> n) @@ c : c \in Creators(n)} :
                          n \in 1 .. MaxCount}

RightsRecords ==
    {Empty}
    \cup {DS(<<"/nrd:rights">>) :> t : t \in RightsMarkups}
    \cup {(DS(<<"/nrd:rights">>) :> Licensed)
              @@ (DS(<<"/nrd:rights", "/@rdf:resource">>) :> "http://ex/rights")}
    \cup {(DS(<<"/nrd:rights", ".count">>) :> 1)
              @@ (DS(<<"/nrd:rights", ".0">>) :> Licensed)}

\* a file, a project and a collection, for the other callbacks
OtherRecords ==
    {Empty,
     (DS(<<"/nrd:manifestation", ".count">>) :> 1)
       @@ (DS(<<"/nrd:manifestation", ".0">>) :> "file")
       @@ (DS(<<"/nrd:manifestation", ".0", "/dcat:mediaType">>) :> "text/csv")
       @@ (DS(<<"/nrd:producerProject">>) :> "project")
       @@ (DS(<<"/nrd:producerProject", "/rev:arpfo:funds", ".0", "/arpfo:grantNumber">>) :> "42")
       @@ (DS(<<"/dct:isPartOf", ".count">>) :> 1)
       @@ (DS(<<"/dct:isPartOf", ".0">>) :> "series")
       @@ (DS(<<"/dct:isPartOf", ".0", "/@rdf:resource">>) :> "http://ex/series")
       @@ (DS(<<"/dct:isPartOf", ".0", "/dct:title">>) :> "Series")}

NrdRecords ==
    {t @@ c @@ r @@ o : t \in Opt(DS(<<"/dct:title">>), "Sample"),
                        c \in CreatorRecords, r \in RightsRecords, o \in OtherRecords}

InitReader ==
    /\ xml \in NrdRecords
    /\ result = xml /\ rd = "idle"
    /\ InitIdleCopy /\ InitIdleWrap

\* lines 101-160: the rule table, then the rights; an exception of the rule
\* table propagates, with the dictionary as it was when it was raised
nrd_metadata_reader ==
    /\ rd = "idle"
    /\ LET st == MappingPass(xml)
           r == IF st.err # "ok" THEN Raise(st.md, st.err) ELSE RightsPass(st.md)
       IN /\ result' = r.md
          /\ rd' = IF r.err = "ok" THEN "returned" ELSE "raised"
    /\ UNCHANGED <<xml, copyVars, wrapVars>>

NextReader == nrd_metadata_reader

SpecReader == InitReader /\ [][NextReader]_vars

(***************************************************************************)
(* C3.  The creator scenario.                                              *)
(***************************************************************************)
CreatorCount == Get(xml, DS(<<"/nrd:creator", ".count">>), 0)

\* the dictionary holds a title, a creator count and a name for each creator,
\* and nothing else
ScenarioInput ==
    /\ CreatorCount >= 1
    /\ DOMAIN xml = {DS(<<"/dct:title">>), DS(<<"/nrd:creator", ".count">>)}
                      \cup {DS(<<"/nrd:creator", Idx(i), "/foaf:name">>) :
                               i \in 0 .. (CreatorCount - 1)}

\* C3 as stated: from a title, a creator count N and the names n_i of the
\* creators, the reader returns a dictionary with title, creator.count = N
\* and creator.i/name = n_i for every i < N.
C3_CreatorNamesProjected ==
    (rd = "returned" /\ ScenarioInput) =>
        /\ Get(result, <<"title">>, None) = xml[DS(<<"/dct:title">>)]
        /\ Get(result, <<"creator", ".count">>, None) = CreatorCount
        /\ \A i \in 0 .. (CreatorCount - 1) :
              Get(result, <<"creator", Idx(i), "/name">>, None)
                  = xml[DS(<<"/nrd:creator", Idx(i), "/foaf:name">>)]

\* what the reader does: it returns title and creator.count = N, and
\* creator.i/name = n_i for exactly the i < N whose dataset/nrd:creator.i is
\* itself a key (projected to creator.i).
C3_NamesOfPresentCreators ==
    (/\ rd = "returned"
     /\ DS(<<"/dct:title">>) \in DOMAIN xml
     /\ CreatorCount >= 1
     /\ \A i \in 0 .. (CreatorCount - 1) :
           DS(<<"/nrd:creator", Idx(i), "/foaf:name">>) \in DOMAIN xml) =>
        /\ Get(result, <<"title">>, None) = xml[DS(<<"/dct:title">>)]
        /\ Get(result, <<"creator", ".count">>, None) = CreatorCount
        /\ \A i \in 0 .. (CreatorCount - 1) :
              IF DS(<<"/nrd:creator", Idx(i)>>) \in DOMAIN xml
              THEN /\ Get(result, <<"creator", Idx(i)>>, None)
                        = xml[DS(<<"/nrd:creator", Idx(i)>>)]
                   /\ Get(result, <<"creator", Idx(i), "/name">>, None)
                        = xml[DS(<<"/nrd:creator", Idx(i), "/foaf:name">>)]
              ELSE /\ <<"creator", Idx(i)>> \notin DOMAIN result
                   /\ <<"creator", Idx(i), "/name">> \notin DOMAIN result

C3_PresentCreatorReached ==
    /\ rd = "returned" /\ CreatorCount = 2
    /\ Get(xml, DS(<<"/dct:title">>), None) = "Sample"
    /\ Get(xml, DS(<<"/nrd:creator", ".0", "/foaf:name">>), None) = "Alice"
    /\ Get(xml, DS(<<"/nrd:creator", ".1", "/foaf:name">>), None) = "Bob"
    /\ DS(<<"/nrd:creator", ".0">>) \in DOMAIN xml
    /\ DS(<<"/nrd:creator", ".1">>) \notin DOMAIN xml
    /\ Get(result, <<"title">>, None) = "Sample"
    /\ Get(result, <<"creator", ".count">>, None) = 2
    /\ Get(result, <<"creator", ".0", "/name">>, None) = "Alice"
    /\ <<"creator", ".1", "/name">> \notin DOMAIN result

(***************************************************************************)
(* C4.  Rights resilience.                                                 *)
(***************************************************************************)
RightsKeys == {<<"rightsclass">>, <<"license">>, <<"accessURL">>}
Projected == MappingPass(xml).md
ProjectedRights == XML(Projected[<<"rights">>])
Category == Lower(ProjectedRights.attrib["RIGHTSCATEGORY"])

RightsAbsent == <<"rights">> \notin DOMAIN Projected
Unparsable == ~RightsAbsent /\ ProjectedRights.err # "ok"
CategoryMissing ==
    /\ ~RightsAbsent /\ ~Unparsable
    /\ "RIGHTSCATEGORY" \notin DOMAIN ProjectedRights.attrib
ChildMissing ==
    /\ ~RightsAbsent /\ ~Unparsable /\ ~CategoryMissing
    /\ Category \in {"licensed", "contractual"}
    /\ Len(ProjectedRights.children) = 0
RightsFailure == RightsAbsent \/ Unparsable \/ CategoryMissing \/ ChildMissing

\* every key but rightsclass, license and accessURL is as the rule table left it
OtherKeysUnchanged ==
    /\ (DOMAIN result) \ RightsKeys = (DOMAIN Projected) \ RightsKeys
    /\ \A k \in (DOMAIN Projected) \ RightsKeys : result[k] = Projected[k]

\* C4 as stated: whatever fails while the rights are handled (no rights key,
\* unparsable markup, no RIGHTSCATEGORY, licensed or contractual without a
\* first child), the reader raises nothing, sets none of rightsclass, license
\* and accessURL, and leaves every other key as it was.
C4_FailureSetsNothing ==
    (rd # "idle" /\ RightsFailure) =>
        /\ rd = "returned"
        /\ RightsKeys \cap DOMAIN result = {}
        /\ OtherKeysUnchanged

\* C4 amended: whatever fails while the rights are handled, the reader raises
\* nothing, sets neither license nor accessURL, and leaves every other key as
\* it was; rightsclass is not set either, except when the failure is the
\* missing first child, where it holds the lower-cased category.
C4_FailureSetsNoLicense ==
    (rd # "idle" /\ RightsFailure) =>
        /\ rd = "returned"
        /\ <<"license">> \notin DOMAIN result
        /\ <<"accessURL">> \notin DOMAIN result
        /\ IF ChildMissing
           THEN Get(result, <<"rightsclass">>, None) = Category
           ELSE <<"rightsclass">> \notin DOMAIN result
        /\ OtherKeysUnchanged

C4_Witness ==
    /\ rd = "returned"
    /\ Get(xml, DS(<<"/nrd:rights">>), None) = ContractualNoChild
    /\ ChildMissing
    /\ Get(result, <<"rightsclass">>, None) = "contractual"
    /\ <<"accessURL">> \notin DOMAIN result
    /\ Get(result, <<"title">>, None) = "Sample"

(***************************************************************************)
(* ExceptReturn(exception, returns)(f).  The specification SpecWrap calls  *)
(* one decorated function; w_f is what f does in the call: it returns a    *)
(* value or raises an exception of some class.                             *)
(***************************************************************************)
ExceptionClasses ==
    {"BaseException", "Exception", "LookupError", "KeyError", "ValueError",
     "KeyboardInterrupt"}

\* the base class of an exception class
Base(cls) ==
    CASE cls = "KeyError" -> "LookupError"
      [] cls \in {"LookupError", "ValueError"} -> "Exception"
      [] cls \in {"Exception", "KeyboardInterrupt"} -> "BaseException"
      [] OTHER -> None

\* line 27: except exception: an exception of class cls matches exception
RECURSIVE IsInstance(_, _)
IsInstance(cls, exception) ==
    cls # None /\ (cls = exception \/ IsInstance(Base(cls), exception))

Returns(v) == [kind |-> "return", val |-> v]
Raises(cls) == [kind |-> "raise", val |-> cls]

Behaviours ==
    {Returns(v) : v \in {"metadata", None}} \cup {Raises(c) : c \in ExceptionClasses \ {"BaseException", "Exception"}}

Fallbacks == {None, "fallback", "default"}

\* the matching exception logged and raised again
ExceptReturn_Rethrow(exception, returns, f) ==
    IF f.kind = "return"
    THEN [outcome |-> "returned", val |-> f.val, invoked |-> 1]
    ELSE [outcome |-> "raised", val |-> f.val, invoked |-> 1]

\* lines 21-33: one call of the decorated function; invoked counts the
\* invocations of f
ExceptReturn(exception, returns, f) ==
    IF f.kind = "return"
    THEN [outcome |-> "returned", val |-> f.val, invoked |-> 1]
    ELSE IF IsInstance(f.val, exception)
         THEN [outcome |-> "returned", val |-> returns, invoked |-> 1]
         ELSE [outcome |-> "raised", val |-> f.val, invoked |-> 1]

InitWrap ==
    /\ w_exception \in ExceptionClasses
    /\ w_returns \in Fallbacks
    /\ w_f = None /\ w_out = None /\ w_n = 0
    /\ InitIdleCopy /\ InitIdleReader

call ==
    /\ w_n < MaxCalls
    /\ \E f \in Behaviours :
         /\ w_f' = f
         /\ w_out' = ExceptReturn(w_exception, w_returns, f)
    /\ w_n' = w_n + 1
    /\ UNCHANGED <<w_exception, w_returns, copyVars, readerVars>>

NextWrap == call

SpecWrap == InitWrap /\ [][NextWrap]_vars

(***************************************************************************)
(* C8.  Fallback wrapping.                                                 *)
(***************************************************************************)
\* C8: a call of the decorated function invokes f once; it returns f's result
\* when f returns, returns the fallback when f raises an exception of the
\* given class (or of a subclass), and raises f's exception otherwise.
C8_FallbackWrapping ==
    w_n >= 1 =>
        /\ w_out.invoked = 1
        /\ w_f.kind = "return"
              => (w_out.outcome = "returned" /\ w_out.val = w_f.val)
        /\ (w_f.kind = "raise" /\ IsInstance(w_f.val, w_exception))
              => (w_out.outcome = "returned" /\ w_out.val = w_returns)
        /\ (w_f.kind = "raise" /\ ~IsInstance(w_f.val, w_exception))
              => (w_out.outcome = "raised" /\ w_out.val = w_f.val)

C8_Witness ==
    /\ w_n = 2
    /\ w_exception = "LookupError" /\ w_returns = "fallback"
    /\ w_f = Raises("KeyError")
    /\ w_out = [outcome |-> "returned", val |-> "fallback", invoked |-> 1]

C8_WitnessPropagates ==
    /\ w_n >= 1
    /\ w_exception = "LookupError"
    /\ w_f = Raises("ValueError")
    /\ w_out.outcome = "raised"

====
